---- MODULE Spec2Model ----
(***************************************************************************)
(* Model of apps/worker-python/audio_preprocessing.py (preprocess_audio    *)
(* and the conditioner chain it runs) and of the frequency-band lookup in  *)
(* language_config.py.                                                     *)
(*                                                                         *)
(* A byte buffer is a record: which container it is, its subtype, its      *)
(* sample rate, its frame count and what was done to the samples it        *)
(* holds.  A sample array is a record [n, hist]: n is its length and hist  *)
(* the transforms that produced it from the decoded input, so two arrays   *)
(* are equal exactly when they have the same provenance.  Sample values    *)
(* are not represented; the one data-dependent library result the chain    *)
(* uses (how many frames librosa.effects.trim finds silent) is an input    *)
(* of the run.  Library behaviour is that of numpy, scipy >= 1.2 and       *)
(* librosa >= 0.10.                                                        *)
(*                                                                         *)
(* Scaled parameters: noise_reduction_factor in tenths, the pre-emphasis   *)
(* coefficient and noise_variance in hundredths.                           *)
(***************************************************************************)
EXTENDS Integers, Sequences, FiniteSets, TLC

VARIABLES
    audio_data,           \* argument: the input byte buffer
    target_sr,            \* argument: target sample rate
    language_hint,        \* argument: language code, None or a string
    preprocessing_level,  \* argument: profile name
    sf_write_fails,       \* environment: sf.write raises in this run
    quiet,                \* environment: [lead, tail] frames trim finds silent
    pc,                   \* position in preprocess_audio
    fn,                   \* the apply_*_preprocessing function entered
    ip,                   \* index of the next statement of fn
    audio,                \* local: the current sample array
    sr,                   \* local: the rate librosa.load returned
    calls,                \* history: the conditioner calls made so far
    exc,                  \* the exception in flight ("" when none)
    outcome,              \* what the call gave its caller
    unit                  \* a function called on its own: its arguments,
                          \* position and return value

vars == <<audio_data, target_sr, language_hint, preprocessing_level,
          sf_write_fails, quiet, pc, fn, ip, audio, sr, calls, exc, outcome,
          unit>>

\* what a run of preprocess_audio leaves as it is: its arguments, its
\* environment and the functions called outside it
args == <<audio_data, target_sr, language_hint, preprocessing_level,
          sf_write_fails, quiet, unit>>

\* what a function called on its own leaves as it is
pipeline == <<audio_data, target_sr, language_hint, preprocessing_level,
              sf_write_fails, quiet, pc, fn, ip, audio, sr, calls, exc, outcome>>

----------------------------------------------------------------------------
(* Bounds of the model *)

\* input lengths reach MaxHops hops of 512 samples
MaxHops == 4
\* trim finds at most MaxQuiet silent frames at either end
MaxQuiet == 1

----------------------------------------------------------------------------
(* Program constants *)

default_target_sr == 16000
default_low_cutoff == 80
default_high_cutoff == 8000
n_fft == 2048
hop_length == 512
filter_order == 4
default_top_db == 20
aggressive_top_db == 15
frame_length == 2048
standard_noise_reduction == 7
aggressive_noise_reduction == 9
preemphasis_coeff == 97
wiener_noise_variance == 1
default_highpass_cutoff == 80
default_noise_reduction == 8
normalize_target_db == 0 - 20

None == "<None>"

Min(a, b) == IF a <= b THEN a ELSE b
CeilDiv(a, b) == (a + b - 1) \div b

----------------------------------------------------------------------------
(* language_config.py *)

\* faulty variant of the table: the East Asian band reaches 16000 Hz
LANGUAGE_FREQUENCY_RANGES_wide_zh ==
    [l \in {"en", "es", "fr", "de", "hi", "ta", "te", "bn", "zh", "ja", "ko"} |->
        CASE l \in {"en", "es", "fr", "de"} -> <<200, 8000>>
          [] l \in {"hi", "ta", "te", "bn"} -> <<100, 8000>>
          [] OTHER -> <<150, 16000>>]

\* faulty variant of the table: every language has the European band
LANGUAGE_FREQUENCY_RANGES_flat ==
    [l \in {"en", "es", "fr", "de", "hi", "ta", "te", "bn", "zh", "ja", "ko"} |->
        <<200, 8000>>]

LANGUAGE_FREQUENCY_RANGES ==
    [l \in {"en", "es", "fr", "de", "hi", "ta", "te", "bn", "zh", "ja", "ko"} |->
        CASE l \in {"en", "es", "fr", "de"} -> <<200, 8000>>
          [] l \in {"hi", "ta", "te", "bn"} -> <<100, 8000>>
          [] OTHER -> <<150, 8000>>]

\* faulty variant of the lookup: the fallback is the English entry, as in
\* get_language_whisper_params
get_language_frequency_range_default_en(language) ==
    IF language \in DOMAIN LANGUAGE_FREQUENCY_RANGES
    THEN LANGUAGE_FREQUENCY_RANGES[language]
    ELSE LANGUAGE_FREQUENCY_RANGES["en"]

\* dict.get(language, (80, 8000))
get_language_frequency_range(language) ==
    IF language \in DOMAIN LANGUAGE_FREQUENCY_RANGES
    THEN LANGUAGE_FREQUENCY_RANGES[language]
    ELSE <<80, 8000>>

----------------------------------------------------------------------------
(* Byte buffers and the codec (librosa.load, soundfile.write) *)

Buffer(format, subtype, samplerate, frames, payload) ==
    [format |-> format, subtype |-> subtype, samplerate |-> samplerate,
     frames |-> frames, payload |-> payload]

\* b"" and bytes that are no audio container
EmptyBytes == Buffer("", "", 0, 0, <<>>)
GarbageBytes == Buffer("not audio data", "", 0, 0, <<>>)

Decodable(b) == b.format \in {"WAV", "FLAC"}

\* faulty variant of the decoder: the samples keep the rate of the file, as
\* with sr=None
librosa_load_native(b, rate) ==
    IF ~Decodable(b)
    THEN [status |-> "raised", out |-> [n |-> 0, hist |-> <<>>], sr |-> 0]
    ELSE [status |-> "ok", out |-> [n |-> b.frames, hist |-> b.payload],
          sr |-> b.samplerate]

\* librosa.load(io.BytesIO(audio_data), sr=target_sr): raises on bytes that
\* are no container, else the samples resampled to target_sr
librosa_load(b, rate) ==
    IF ~Decodable(b)
    THEN [status |-> "raised", out |-> [n |-> 0, hist |-> <<>>], sr |-> 0]
    ELSE [status |-> "ok",
          out |-> [n |-> IF b.samplerate = rate THEN b.frames
                         ELSE CeilDiv(b.frames * rate, b.samplerate),
                   hist |-> b.payload],
          sr |-> rate]

\* faulty variant of the encoder: the samples are written as 32-bit float
sf_write_float(a, rate) == Buffer("WAV", "FLOAT", rate, a.n, Append(a.hist, [fn |-> "FLOAT", args |-> <<>>]))

\* sf.write(buffer, audio, target_sr, format='WAV', subtype='PCM_16')
sf_write(a, rate) == Buffer("WAV", "PCM_16", rate, a.n, Append(a.hist, [fn |-> "PCM_16", args |-> <<>>]))

----------------------------------------------------------------------------
(* The conditioners.  Each gives [fn, args, status, out]: status is "ok",  *)
(* "failsoft" (the except clause returned the input) or "raised" (an       *)
(* exception left the function).                                           *)

Done(f, a, status, out) == [fn |-> f, args |-> a, status |-> status, out |-> out]

Applied(a, f, p, n) == [n |-> n, hist |-> Append(a.hist, [fn |-> f, args |-> p])]

\* np.max(np.abs(audio)) raises ValueError on a zero-size array
normalize_audio(a) ==
    LET p == <<normalize_target_db>> IN
    IF a.n = 0
    THEN Done("normalize_audio", p, "raised", a)
    ELSE Done("normalize_audio", p, "ok", Applied(a, "normalize_audio", p, a.n))

\* audio - np.mean(audio): an empty array stays empty
remove_dc_offset(a) ==
    Done("remove_dc_offset", <<>>, "ok", Applied(a, "remove_dc_offset", <<>>, a.n))

\* faulty variant of the check on the critical frequencies: the Nyquist
\* frequency itself is accepted
ButterBandOkAtNyquist(rate, low, high) == 0 < 2 * low /\ 2 * high <= rate /\ low < high

\* scipy butter wants 0 < Wn < 1 and Wn[0] < Wn[1]; Wn = cutoff / (sr / 2)
ButterBandOk(rate, low, high) == 0 < 2 * low /\ 2 * high < rate /\ low < high

\* filtfilt wants len(x) > padlen = 3 * max(len(a), len(b))
PadLen == 3 * (2 * filter_order + 1)

apply_bandpass_filter(a, rate, low, high) ==
    LET p == <<low, high>> IN
    IF ButterBandOk(rate, low, high) /\ a.n > PadLen
    THEN Done("apply_bandpass_filter", p, "ok", Applied(a, "apply_bandpass_filter", p, a.n))
    ELSE Done("apply_bandpass_filter", p, "failsoft", a)

\* scipy butter wants 0 < Wn < 1; Wn = cutoff / (sr / 2)
ButterHighOk(rate, cutoff) == 0 < 2 * cutoff /\ 2 * cutoff < rate

\* padlen of filtfilt for the high-pass: 3 * max(len(a), len(b))
HighpassPadLen == 3 * (filter_order + 1)

apply_high_pass_filter(a, rate, cutoff) ==
    LET p == <<cutoff>> IN
    IF ButterHighOk(rate, cutoff) /\ a.n > HighpassPadLen
    THEN Done("apply_high_pass_filter", p, "ok", Applied(a, "apply_high_pass_filter", p, a.n))
    ELSE Done("apply_high_pass_filter", p, "failsoft", a)

\* the except clause is not reached: the lookup does not raise on a string
\* and apply_bandpass_filter catches its own exceptions
apply_language_specific_preprocessing(a, rate, language) ==
    LET band == get_language_frequency_range(language)
    IN apply_bandpass_filter(a, rate, band[1], band[2])

\* faulty variant of the noise reduction: the inverse transform keeps the
\* padding of the centred frames
reduce_noise_keeps_padding(a, rate, factor) ==
    LET p == <<factor, n_fft, hop_length>> IN
    Done("reduce_noise", p, "ok",
         Applied(a, "reduce_noise", p, n_fft + hop_length * (a.n \div hop_length)))

\* stft (center=True) has 1 + n // hop frames; istft gives hop * (frames - 1)
reduce_noise(a, rate, factor) ==
    LET p == <<factor, n_fft, hop_length>> IN
    Done("reduce_noise", p, "ok",
         Applied(a, "reduce_noise", p, hop_length * (a.n \div hop_length)))

\* librosa.effects.trim keeps y[start:end] from the first to the last frame
\* above the threshold; the loudest frame is always above it
TrimSlice(n, q) ==
    LET last == IF n = 0 THEN 0 ELSE (n - 1) \div hop_length
        lead == Min(q.lead, last)
        tail == Min(q.tail, last - lead)
    IN [start |-> lead * hop_length,
        end |-> Min(n, (last + 1 - tail) * hop_length)]

\* faulty variant of the trim: the end of the slice is the end of the last
\* frame kept, not clamped to the length of the signal
trim_silence_unclamped(a, rate, top_db, q) ==
    LET p == <<top_db, frame_length, hop_length>>
        last == IF a.n = 0 THEN 0 ELSE (a.n - 1) \div hop_length
        lead == Min(q.lead, last)
        tail == Min(q.tail, last - lead)
    IN Done("trim_silence", p, "ok",
            Applied(a, "trim_silence", p, (last + 1 - tail) * hop_length - lead * hop_length))

trim_silence(a, rate, top_db, q) ==
    LET p == <<top_db, frame_length, hop_length>>
        slice == TrimSlice(a.n, q)
    IN Done("trim_silence", p, "ok", Applied(a, "trim_silence", p, slice.end - slice.start))

\* faulty variant of the pre-emphasis: the difference x[n] - coeff * x[n-1]
\* is taken without a first sample
apply_preemphasis_drops_first(a) ==
    LET p == <<preemphasis_coeff>> IN
    IF a.n < 2
    THEN Done("apply_preemphasis", p, "failsoft", a)
    ELSE Done("apply_preemphasis", p, "ok", Applied(a, "apply_preemphasis", p, a.n - 1))

\* librosa.effects.preemphasis builds zi from y[0:1] and y[1:2]; with fewer
\* than two samples zi is empty and lfilter raises
apply_preemphasis(a) ==
    LET p == <<preemphasis_coeff>> IN
    IF a.n < 2
    THEN Done("apply_preemphasis", p, "failsoft", a)
    ELSE Done("apply_preemphasis", p, "ok", Applied(a, "apply_preemphasis", p, a.n))

\* wiener_gain is a scalar; savgol_filter(window_length=5) raises on it
apply_wiener_filter(a) ==
    Done("apply_wiener_filter", <<wiener_noise_variance>>, "failsoft", a)

\* librosa.util.normalize: np.max over a zero-size array raises ValueError
librosa_util_normalize(a) ==
    IF a.n = 0
    THEN Done("librosa.util.normalize", <<>>, "raised", a)
    ELSE Done("librosa.util.normalize", <<>>, "ok", Applied(a, "librosa.util.normalize", <<>>, a.n))

----------------------------------------------------------------------------
(* The three chains: the statements of each function, in source order *)

Stmt(op, p) == [op |-> op, args |-> p]

\* faulty variant of the minimal chain: pre-emphasis added at the end
apply_minimal_with_preemphasis ==
    << Stmt("normalize_audio", <<>>),
       Stmt("remove_dc_offset", <<>>),
       Stmt("trim_silence", <<default_top_db>>),
       Stmt("apply_preemphasis", <<>>) >>

apply_minimal_preprocessing ==
    << Stmt("normalize_audio", <<>>),
       Stmt("remove_dc_offset", <<>>),
       Stmt("trim_silence", <<default_top_db>>) >>

\* faulty variant of the standard chain: silence is trimmed before noise reduction
apply_standard_trim_first ==
    << Stmt("normalize_audio", <<>>),
       Stmt("remove_dc_offset", <<>>),
       Stmt("band_filter", <<default_low_cutoff, default_high_cutoff>>),
       Stmt("trim_silence", <<default_top_db>>),
       Stmt("reduce_noise", <<standard_noise_reduction>>),
       Stmt("apply_preemphasis", <<>>),
       Stmt("librosa.util.normalize", <<>>) >>

apply_standard_preprocessing ==
    << Stmt("normalize_audio", <<>>),
       Stmt("remove_dc_offset", <<>>),
       Stmt("band_filter", <<default_low_cutoff, default_high_cutoff>>),
       Stmt("reduce_noise", <<standard_noise_reduction>>),
       Stmt("trim_silence", <<default_top_db>>),
       Stmt("apply_preemphasis", <<>>),
       Stmt("librosa.util.normalize", <<>>) >>

\* faulty variant of the aggressive chain: the Wiener filter runs after the trim
apply_aggressive_wiener_late ==
    << Stmt("normalize_audio", <<>>),
       Stmt("remove_dc_offset", <<>>),
       Stmt("band_filter", <<default_low_cutoff, default_high_cutoff>>),
       Stmt("reduce_noise", <<aggressive_noise_reduction>>),
       Stmt("trim_silence", <<aggressive_top_db>>),
       Stmt("apply_wiener_filter", <<>>),
       Stmt("apply_preemphasis", <<>>),
       Stmt("librosa.util.normalize", <<>>) >>

apply_aggressive_preprocessing ==
    << Stmt("normalize_audio", <<>>),
       Stmt("remove_dc_offset", <<>>),
       Stmt("band_filter", <<default_low_cutoff, default_high_cutoff>>),
       Stmt("reduce_noise", <<aggressive_noise_reduction>>),
       Stmt("apply_wiener_filter", <<>>),
       Stmt("trim_silence", <<aggressive_top_db>>),
       Stmt("apply_preemphasis", <<>>),
       Stmt("librosa.util.normalize", <<>>) >>

Body(f) ==
    CASE f = "apply_minimal_preprocessing" -> apply_minimal_preprocessing
      [] f = "apply_standard_preprocessing" -> apply_standard_preprocessing
      [] f = "apply_aggressive_preprocessing" -> apply_aggressive_preprocessing
      [] OTHER -> <<>>

\* faulty variant of the dispatch: an unknown level runs the minimal chain
DispatchElseMinimal(level) ==
    IF level = "minimal" THEN "apply_minimal_preprocessing"
    ELSE IF level = "standard" THEN "apply_standard_preprocessing"
    ELSE IF level = "aggressive" THEN "apply_aggressive_preprocessing"
    ELSE "apply_minimal_preprocessing"

\* the if/elif/else of preprocess_audio
Dispatch(level) ==
    IF level = "minimal" THEN "apply_minimal_preprocessing"
    ELSE IF level = "standard" THEN "apply_standard_preprocessing"
    ELSE IF level = "aggressive" THEN "apply_aggressive_preprocessing"
    ELSE "apply_standard_preprocessing"

\* if language_hint: (None and "" are falsy)
Truthy(hint) == hint # None /\ hint # ""

\* the band-limiting statement of the standard and aggressive chains
band_filter(a, rate, hint, dflt) ==
    IF Truthy(hint)
    THEN apply_language_specific_preprocessing(a, rate, hint)
    ELSE apply_bandpass_filter(a, rate, dflt[1], dflt[2])

\* one statement of a chain, executed
Exec(s, a, rate, hint, q) ==
    CASE s.op = "normalize_audio" -> normalize_audio(a)
      [] s.op = "remove_dc_offset" -> remove_dc_offset(a)
      [] s.op = "band_filter" -> band_filter(a, rate, hint, s.args)
      [] s.op = "reduce_noise" -> reduce_noise(a, rate, s.args[1])
      [] s.op = "apply_wiener_filter" -> apply_wiener_filter(a)
      [] s.op = "trim_silence" -> trim_silence(a, rate, s.args[1], q)
      [] s.op = "apply_preemphasis" -> apply_preemphasis(a)
      [] s.op = "librosa.util.normalize" -> librosa_util_normalize(a)

\* faulty variants of the handler: the exception is passed on; the samples in hand
\* are encoded and returned
HandlerReraises(e, data, a, rate) == [kind |-> "raise", value |-> data]
HandlerReturnsPartial(e, data, a, rate) == [kind |-> "return", value |-> sf_write(a, rate)]

\* except Exception: return audio_data
Handler(e, data, a, rate) == [kind |-> "return", value |-> data]

----------------------------------------------------------------------------
(* The inputs of a run *)

Lengths ==
    {0, 1, PadLen, PadLen + 1}
      \cup {k * hop_length - 1 : k \in 1..MaxHops}
      \cup {k * hop_length : k \in 1..MaxHops}

Containers ==
    {Buffer(f[1], f[2], r, n, <<>>) :
        f \in {<<"WAV", "PCM_16">>, <<"FLAC", "PCM_24">>},
        r \in {default_target_sr, 44100},
        n \in Lengths}

ByteBuffers == {EmptyBytes, GarbageBytes} \cup Containers

TargetRates == {default_target_sr, 44100}

Hints == {None, "", "en", "hi", "xyz"}

Levels == {"minimal", "standard", "aggressive", "bogus", "Standard"}

NoAudio == [n |-> 0, hist |-> <<>>]
NoOutcome == [kind |-> "", value |-> EmptyBytes]
NoUnit == [f |-> "", pc |-> "idle"]

Init ==
    /\ audio_data \in ByteBuffers
    /\ target_sr \in TargetRates
    /\ language_hint \in Hints
    /\ preprocessing_level \in Levels
    /\ sf_write_fails \in BOOLEAN
    /\ quiet \in [lead : 0..MaxQuiet, tail : 0..MaxQuiet]
    /\ pc = "load"
    /\ fn = ""
    /\ ip = 0
    /\ audio = NoAudio
    /\ sr = 0
    /\ calls = <<>>
    /\ exc = ""
    /\ outcome = NoOutcome
    /\ unit = NoUnit

----------------------------------------------------------------------------
(* preprocess_audio, statement by statement *)

\* audio, sr = librosa.load(...), then the branch on preprocessing_level
Load ==
    /\ pc = "load"
    /\ LET r == librosa_load(audio_data, target_sr) IN
        IF r.status = "raised"
        THEN /\ pc' = "except"
             /\ exc' = "librosa.load"
             /\ UNCHANGED <<fn, ip, audio, sr>>
        ELSE /\ pc' = "chain"
             /\ fn' = Dispatch(preprocessing_level)
             /\ ip' = 1
             /\ audio' = r.out
             /\ sr' = r.sr
             /\ exc' = ""
    /\ UNCHANGED <<args, calls, outcome>>

\* the statement at ip of the entered function is a call of op
AtCall(op) ==
    /\ pc = "chain"
    /\ ip <= Len(Body(fn))
    /\ Body(fn)[ip].op = op

\* run the statement at ip: bind its result to audio, or leave by exception
RunStmt ==
    LET r == Exec(Body(fn)[ip], audio, sr, language_hint, quiet) IN
    /\ calls' = Append(calls, [fn |-> r.fn, args |-> r.args, in |-> audio,
                               out |-> r.out, status |-> r.status])
    /\ IF r.status = "raised"
       THEN /\ pc' = "except"
            /\ exc' = r.fn
            /\ UNCHANGED <<audio, ip>>
       ELSE /\ audio' = r.out
            /\ ip' = ip + 1
            /\ pc' = IF ip = Len(Body(fn)) THEN "encode" ELSE "chain"
            /\ exc' = ""
    /\ UNCHANGED <<args, fn, sr, outcome>>

CallNormalize == AtCall("normalize_audio") /\ RunStmt
CallRemoveDcOffset == AtCall("remove_dc_offset") /\ RunStmt
CallBandFilter == AtCall("band_filter") /\ RunStmt
CallReduceNoise == AtCall("reduce_noise") /\ RunStmt
CallWienerFilter == AtCall("apply_wiener_filter") /\ RunStmt
CallTrimSilence == AtCall("trim_silence") /\ RunStmt
CallPreemphasis == AtCall("apply_preemphasis") /\ RunStmt
CallFinalNormalize == AtCall("librosa.util.normalize") /\ RunStmt

\* sf.write(...); return buffer.getvalue()
Encode ==
    /\ pc = "encode"
    /\ IF sf_write_fails
       THEN /\ pc' = "except"
            /\ exc' = "sf.write"
            /\ UNCHANGED outcome
       ELSE /\ pc' = "done"
            /\ outcome' = [kind |-> "return", value |-> sf_write(audio, target_sr)]
            /\ exc' = ""
    /\ UNCHANGED <<args, fn, ip, audio, sr, calls>>

\* except Exception as e: ... return audio_data
Except ==
    /\ pc = "except"
    /\ outcome' = Handler(exc, audio_data, audio, target_sr)
    /\ pc' = "done"
    /\ UNCHANGED <<args, fn, ip, audio, sr, calls, exc>>

Next ==
    \/ Load
    \/ CallNormalize
    \/ CallRemoveDcOffset
    \/ CallBandFilter
    \/ CallReduceNoise
    \/ CallWienerFilter
    \/ CallTrimSilence
    \/ CallPreemphasis
    \/ CallFinalNormalize
    \/ Encode
    \/ Except

Spec == Init /\ [][Next]_vars

----------------------------------------------------------------------------
(* A whole call as a function of its arguments, for comparing runs *)

RECURSIVE RunBody(_, _, _, _, _, _, _)
RunBody(body, i, a, rate, hint, q, done) ==
    IF i > Len(body)
    THEN [status |-> "ok", out |-> a, calls |-> done]
    ELSE LET r == Exec(body[i], a, rate, hint, q)
             c == Append(done, [fn |-> r.fn, args |-> r.args, in |-> a,
                                out |-> r.out, status |-> r.status])
         IN IF r.status = "raised"
            THEN [status |-> "raised", out |-> a, calls |-> c]
            ELSE RunBody(body, i + 1, r.out, rate, hint, q, c)

preprocess_audio(data, rate, hint, level, fails, q) ==
    LET l == librosa_load(data, rate) IN
    IF l.status = "raised"
    THEN [outcome |-> Handler("librosa.load", data, NoAudio, rate), calls |-> <<>>]
    ELSE LET r == RunBody(Body(Dispatch(level)), 1, l.out, l.sr, hint, q, <<>>) IN
         IF r.status = "raised" \/ fails
         THEN [outcome |-> Handler("stage", data, r.out, rate), calls |-> r.calls]
         ELSE [outcome |-> [kind |-> "return", value |-> sf_write(r.out, rate)],
               calls |-> r.calls]

----------------------------------------------------------------------------
(* Vocabulary of the properties *)

Sig(f, p) == [fn |-> f, args |-> p]

\* the calls made so far, as (function, parameters) pairs
Sigs == [i \in 1..Len(calls) |-> Sig(calls[i].fn, calls[i].args)]

IsPrefix(s, t) == Len(s) <= Len(t) /\ \A i \in 1..Len(s) : s[i] = t[i]

StageNames ==
    {"normalize_audio", "remove_dc_offset", "apply_bandpass_filter", "reduce_noise",
     "apply_wiener_filter", "trim_silence", "apply_preemphasis", "librosa.util.normalize"}

Returned(b) == outcome = [kind |-> "return", value |-> b]

\* the last call made raised
LastRaised == calls # <<>> /\ calls[Len(calls)].status = "raised"

\* the band the claims name for a hint
ClaimedBand == IF language_hint # None THEN get_language_frequency_range(language_hint)
               ELSE <<80, 8000>>

IsPcm16Wav(b, rate) == b.format = "WAV" /\ b.subtype = "PCM_16" /\ b.samplerate = rate

----------------------------------------------------------------------------
(* The properties *)

\* C1: for every buffer the decoder cannot decode (the empty buffer included),
\* every profile name and every language hint, the call returns its input
\* buffer itself and raises nothing.
C1_UndecodableReturnsInput ==
    (pc = "done" /\ ~Decodable(audio_data)) => Returned(audio_data)

C1_Witness ==
    /\ pc = "done"
    /\ audio_data = GarbageBytes
    /\ preprocessing_level = "aggressive"
    /\ language_hint = "hi"
    /\ exc = "librosa.load"
    /\ Returned(GarbageBytes)

\* C2: when decoding succeeds but a conditioner lets an exception escape or
\* the encoder fails, the call returns exactly the input bytes, never the
\* partially processed samples, and raises nothing.
C2_EscapeReturnsInput ==
    (pc = "done" /\ Decodable(audio_data) /\ exc \in StageNames \cup {"sf.write"})
        => Returned(audio_data)

C2_Witness ==
    /\ pc = "done"
    /\ Decodable(audio_data)
    /\ exc = "librosa.util.normalize"
    /\ Len(calls) > 1
    /\ calls[Len(calls)].in.hist # <<>>
    /\ Returned(audio_data)

C2_WitnessEncoder ==
    /\ pc = "done"
    /\ exc = "sf.write"
    /\ audio.hist # <<>>
    /\ Returned(audio_data)

\* C3 (as claimed): no conditioner call raises, and a call that fails inside
\* returns its input unchanged.
C3_ConditionersNeverRaise ==
    \A i \in 1..Len(calls) :
        /\ calls[i].status # "raised"
        /\ calls[i].status = "failsoft" => calls[i].out = calls[i].in

\* C4 (as claimed): in a run whose encoder works, when a stage fails inside,
\* every stage of the chain still runs, the stage after a failed one starts
\* from the failed stage's input, and the call returns the encoded result.
C4_FailedStageDoesNotStopChain ==
    (/\ pc = "done"
     /\ ~sf_write_fails
     /\ \E i \in 1..Len(calls) : calls[i].status \in {"failsoft", "raised"})
    => /\ Len(calls) = Len(Body(fn))
       /\ \A i \in 1..(Len(calls) - 1) :
             calls[i].status \in {"failsoft", "raised"} => calls[i + 1].in = calls[i].in
       /\ Returned(sf_write(audio, target_sr))

\* C5: for every profile name other than minimal, standard and aggressive the
\* call makes the same conditioner calls with the same parameters, and returns
\* the same buffer, as a call with profile standard on the same arguments.
C5_UnknownLevelIsStandard ==
    (pc = "done" /\ preprocessing_level \notin {"minimal", "standard", "aggressive"})
    => LET std == preprocess_audio(audio_data, target_sr, language_hint, "standard",
                                   sf_write_fails, quiet)
       IN outcome = std.outcome /\ calls = std.calls

C5_Witness ==
    /\ pc = "done"
    /\ preprocessing_level = "bogus"
    /\ exc = ""
    /\ Len(calls) = 7
    /\ calls[4].fn = "reduce_noise"
    /\ outcome.value.format = "WAV"

\* C6: in a run of profile standard the conditioner calls are, in this order
\* and once each, Normalize, RemoveDcOffset, BandpassFilter (the hint's band,
\* or (80, 8000) without a hint), SpectralNoiseSuppress 0.7, TrimSilence 20,
\* PreEmphasis, peak Normalize, and no other; the chain is cut short only by
\* a stage that raises.
C6_Chain ==
    << Sig("normalize_audio", <<0 - 20>>),
       Sig("remove_dc_offset", <<>>),
       Sig("apply_bandpass_filter", ClaimedBand),
       Sig("reduce_noise", <<7, 2048, 512>>),
       Sig("trim_silence", <<20, 2048, 512>>),
       Sig("apply_preemphasis", <<97>>),
       Sig("librosa.util.normalize", <<>>) >>

C7_Chain ==
    << Sig("normalize_audio", <<0 - 20>>),
       Sig("remove_dc_offset", <<>>),
       Sig("apply_bandpass_filter", ClaimedBand),
       Sig("reduce_noise", <<9, 2048, 512>>),
       Sig("apply_wiener_filter", <<1>>),
       Sig("trim_silence", <<15, 2048, 512>>),
       Sig("apply_preemphasis", <<97>>),
       Sig("librosa.util.normalize", <<>>) >>

C8_Chain ==
    << Sig("normalize_audio", <<0 - 20>>),
       Sig("remove_dc_offset", <<>>),
       Sig("trim_silence", <<20, 2048, 512>>) >>

C9_EveryReturnIsPcm16Wav ==
    (pc = "done" /\ target_sr = 16000) => IsPcm16Wav(outcome.value, 16000)

\* C9 (amended): the buffer returned when decoding, the chain and the encoder
\* all succeed is a 16-bit PCM WAV container at the target rate; on every
\* fallback path the buffer returned is the input buffer itself.
C9_ReturnIsPcm16WavOrInput ==
    pc = "done" =>
        /\ outcome.kind = "return"
        /\ IF exc = ""
           THEN IsPcm16Wav(outcome.value, target_sr) /\ outcome.value.frames = audio.n
           ELSE outcome.value = audio_data

C9_Witness ==
    /\ pc = "done"
    /\ exc = ""
    /\ target_sr = 16000
    /\ audio_data.format = "FLAC"
    /\ audio_data.samplerate = 44100
    /\ IsPcm16Wav(outcome.value, 16000)

\* C10 (as claimed): at the 16000 Hz target rate every BandpassFilter call of
\* the pipeline has cutoffs with 0 < lowHz < highHz < Nyquist = sr / 2.
C10_BandBelowNyquist ==
    target_sr = 16000 =>
        \A i \in 1..Len(calls) :
            calls[i].fn = "apply_bandpass_filter" =>
                /\ 0 < calls[i].args[1]
                /\ calls[i].args[1] < calls[i].args[2]
                /\ 2 * calls[i].args[2] < sr

----------------------------------------------------------------------------
(* Functions called on their own.  While one runs, preprocess_audio is not *)
(* running.                                                                *)

PipelineIdle ==
    /\ audio_data = EmptyBytes
    /\ target_sr = default_target_sr
    /\ language_hint = None
    /\ preprocessing_level = "standard"
    /\ sf_write_fails = FALSE
    /\ quiet = [lead |-> 0, tail |-> 0]
    /\ pc = "idle"
    /\ fn = ""
    /\ ip = 0
    /\ audio = NoAudio
    /\ sr = 0
    /\ calls = <<>>
    /\ exc = ""
    /\ outcome = NoOutcome

----------------------------------------------------------------------------
(* get_language_frequency_range called on its own *)

KnownCodes == DOMAIN LANGUAGE_FREQUENCY_RANGES

\* codes that are no key of the table: None, the empty string, unknown
\* codes, and known codes padded, extended or in upper case
OtherCodes ==
    {None, "", "xyz", "auto", "english"}
      \cup {" " \o k : k \in KnownCodes}
      \cup {k \o " " : k \in KnownCodes}
      \cup {k \o "-IN" : k \in KnownCodes}
      \cup {k \o "g" : k \in KnownCodes}
      \cup {"EN", "ES", "FR", "DE", "HI", "TA", "TE", "BN", "ZH", "JA", "KO"}

LanguageCodes == KnownCodes \cup OtherCodes

InitLang ==
    /\ PipelineIdle
    /\ unit \in [f : {"get_language_frequency_range"}, pc : {"call"},
                 language : LanguageCodes, ret : {<<0, 0>>}]

\* return LANGUAGE_FREQUENCY_RANGES.get(language, (80, 8000))
LookupBand ==
    /\ unit.f = "get_language_frequency_range"
    /\ unit.pc = "call"
    /\ unit' = [unit EXCEPT !.pc = "returned",
                            !.ret = get_language_frequency_range(unit.language)]
    /\ UNCHANGED pipeline

NextLang == LookupBand

SpecLang == InitLang /\ [][NextLang]_vars

LookupReturned ==
    unit.f = "get_language_frequency_range" /\ unit.pc = "returned"

\* C11: for every language code, known or not, the band returned has
\* 0 < lowHz < highHz and highHz at most the Nyquist frequency of the
\* 16000 Hz target rate.
C11_BandWithinRange ==
    LookupReturned =>
        /\ 0 < unit.ret[1]
        /\ unit.ret[1] < unit.ret[2]
        /\ 2 * unit.ret[2] <= 16000

C11_Witness ==
    /\ LookupReturned
    /\ unit.language = "zh"
    /\ unit.ret = <<150, 8000>>

\* C12: for every code that is no key of the table (None, the empty string,
\* unknown codes, padded or otherwise altered known codes) the lookup
\* returns the default band (80, 8000).
C12_UnknownCodeGetsDefault ==
    (LookupReturned
        /\ unit.language \notin {"en", "es", "fr", "de", "hi", "ta", "te", "bn",
                                 "zh", "ja", "ko"})
    => unit.ret = <<80, 8000>>

C12_Witness ==
    /\ LookupReturned
    /\ unit.language = " en"
    /\ unit.ret = <<80, 8000>>

\* C13: the lookup returns lowHz 200 for en, es, fr, de, lowHz 100 for hi,
\* ta, te, bn, lowHz 150 for zh, ja, ko, and highHz 8000 for each of them.
C13_TableValues ==
    LookupReturned =>
        /\ unit.language \in {"en", "es", "fr", "de"} => unit.ret = <<200, 8000>>
        /\ unit.language \in {"hi", "ta", "te", "bn"} => unit.ret = <<100, 8000>>
        /\ unit.language \in {"zh", "ja", "ko"} => unit.ret = <<150, 8000>>

C13_Witness ==
    /\ LookupReturned
    /\ unit.language = "ta"
    /\ unit.ret = <<100, 8000>>

----------------------------------------------------------------------------
(* A conditioner called on its own *)

UnitLengths == Lengths \cup {HighpassPadLen, HighpassPadLen + 1}

UnitInputs == {[n |-> n, hist |-> <<>>] : n \in UnitLengths}

Quiets == [lead : 0..MaxQuiet, tail : 0..MaxQuiet]

NoQuiet == [lead |-> 0, tail |-> 0]

NoReturn == Done("", <<>>, "", NoAudio)

CondCall(f, a, rate, p, q) ==
    [f |-> f, pc |-> "call", in |-> a, rate |-> rate, p |-> p, q |-> q,
     ret |-> NoReturn]

CondCalls ==
    {CondCall(f, a, default_target_sr, <<>>, NoQuiet) :
        f \in {"normalize_audio", "remove_dc_offset", "apply_wiener_filter",
               "apply_preemphasis"},
        a \in UnitInputs}
      \cup {CondCall("apply_bandpass_filter", a, r, b, NoQuiet) :
               a \in UnitInputs, r \in TargetRates,
               b \in {<<default_low_cutoff, default_high_cutoff>>, <<200, 8000>>,
                      <<300, 3400>>, <<1, 2>>}}
      \cup {CondCall("apply_high_pass_filter", a, r, c, NoQuiet) :
               a \in UnitInputs, r \in TargetRates,
               c \in {<<default_highpass_cutoff>>, <<default_high_cutoff>>, <<0>>}}
      \cup {CondCall("reduce_noise", a, default_target_sr, k, NoQuiet) :
               a \in UnitInputs,
               k \in {<<standard_noise_reduction>>, <<default_noise_reduction>>,
                      <<aggressive_noise_reduction>>}}
      \cup {CondCall("trim_silence", a, default_target_sr, t, q) :
               a \in UnitInputs,
               t \in {<<default_top_db>>, <<aggressive_top_db>>},
               q \in Quiets}

InitCond ==
    /\ PipelineIdle
    /\ unit \in CondCalls

Calling(f) == unit.f = f /\ unit.pc = "call"

Return(r) ==
    /\ unit' = [unit EXCEPT !.pc = IF r.status = "raised" THEN "raised" ELSE "returned",
                            !.ret = r]
    /\ UNCHANGED pipeline

UnitNormalize == Calling("normalize_audio") /\ Return(normalize_audio(unit.in))

UnitRemoveDcOffset == Calling("remove_dc_offset") /\ Return(remove_dc_offset(unit.in))

UnitBandpass ==
    /\ Calling("apply_bandpass_filter")
    /\ Return(apply_bandpass_filter(unit.in, unit.rate, unit.p[1], unit.p[2]))

UnitHighpass ==
    /\ Calling("apply_high_pass_filter")
    /\ Return(apply_high_pass_filter(unit.in, unit.rate, unit.p[1]))

UnitReduceNoise ==
    /\ Calling("reduce_noise")
    /\ Return(reduce_noise(unit.in, unit.rate, unit.p[1]))

UnitWiener == Calling("apply_wiener_filter") /\ Return(apply_wiener_filter(unit.in))

UnitTrimSilence ==
    /\ Calling("trim_silence")
    /\ Return(trim_silence(unit.in, unit.rate, unit.p[1], unit.q))

UnitPreemphasis == Calling("apply_preemphasis") /\ Return(apply_preemphasis(unit.in))

NextCond ==
    \/ UnitNormalize
    \/ UnitRemoveDcOffset
    \/ UnitBandpass
    \/ UnitHighpass
    \/ UnitReduceNoise
    \/ UnitWiener
    \/ UnitTrimSilence
    \/ UnitPreemphasis

SpecCond == InitCond /\ [][NextCond]_vars

CondReturned(f) == unit.f = f /\ unit.pc = "returned"

C14_WitnessFailSoft ==
    /\ CondReturned("apply_high_pass_filter")
    /\ unit.ret.status = "failsoft"
    /\ unit.in.n = 15
    /\ unit.ret.out.n = 15

\* C15: TrimSilence returns a slice [start, end) of its input, so what it
\* removes are leading and trailing samples only, and its output is never
\* longer than its input.
C15_TrimIsSlice ==
    CondReturned("trim_silence") =>
        /\ unit.ret.out.n <= unit.in.n
        /\ \E start \in 0..unit.in.n : \E end \in start..unit.in.n :
              /\ unit.ret.out.n = end - start
              /\ start % 512 = 0
        /\ unit.ret.out.hist = <<[fn |-> "trim_silence", args |-> unit.ret.args]>>

C15_Witness ==
    /\ CondReturned("trim_silence")
    /\ unit.in.n = 2047
    /\ unit.q = [lead |-> 1, tail |-> 1]
    /\ unit.ret.out.n = 1024

\* C16: the output of SpectralNoiseSuppress differs in length from its input
\* by at most one hop (512 samples) and is never longer than the input plus
\* 512.
C16_NoiseLengthWithinHop ==
    CondReturned("reduce_noise") =>
        /\ unit.ret.out.n <= unit.in.n + 512
        /\ unit.in.n <= unit.ret.out.n + 512

C16_Witness ==
    /\ CondReturned("reduce_noise")
    /\ unit.in.n = 1535
    /\ unit.ret.out.n = 1024

\* C17 (as claimed): for an input shorter than one FFT window (2048 samples)
\* SpectralNoiseSuppress returns its input: the same length and, when there
\* are samples at all, the same samples.
C17_ShortInputUnchanged ==
    (CondReturned("reduce_noise") /\ unit.in.n < 2048) =>
        /\ unit.ret.out.n = unit.in.n
        /\ unit.in.n > 0 => unit.ret.out = unit.in

----------------------------------------------------------------------------
(* Quality metrics: assess_audio_quality and validate_preprocessing_quality.
   Here the samples are numbers: a signal is a sequence of integers in units
   of 1e-5, so that the 1e-10 added to the denominators is one squared unit.
   A level in dB is kept as the ratio [num, den] under the logarithm, which
   is monotone; ratios are compared by cross-multiplication. *)

MaxSamples == 3

SampleValues == {0 - 2, 0, 1, 3}

zcr_frame_length == 2048

units_per_one == 100000

Abs(v) == IF v < 0 THEN 0 - v ELSE v

RECURSIVE SumSquares(_)
SumSquares(x) == IF x = <<>> THEN 0 ELSE Head(x) * Head(x) + SumSquares(Tail(x))

RECURSIVE InsertSorted(_, _)
InsertSorted(v, s) ==
    IF s = <<>> THEN <<v>>
    ELSE IF v <= Head(s) THEN <<v>> \o s
    ELSE <<Head(s)>> \o InsertSorted(v, Tail(s))

RECURSIVE SortedAbs(_)
SortedAbs(x) == IF x = <<>> THEN <<>> ELSE InsertSorted(Abs(Head(x)), SortedAbs(Tail(x)))

\* ten times np.percentile(np.abs(x), 10), linear interpolation at 0.1 * (n - 1)
Percentile10x10(x) ==
    LET s == SortedAbs(x)
        lo == (Len(x) - 1) \div 10
        frac == (Len(x) - 1) % 10
    IN IF frac = 0 THEN 10 * s[lo + 1]
       ELSE 10 * s[lo + 1] + frac * (s[lo + 2] - s[lo + 1])

NonZeroAbs(x) == {Abs(x[i]) : i \in {j \in 1..Len(x) : x[j] # 0}}

SetMax(S) == CHOOSE v \in S : \A w \in S : w <= v

SetMin(S) == CHOOSE v \in S : \A w \in S : v <= w

\* librosa.zero_crossings with zero_pos=True: zero counts as positive
SignBit(v) == v < 0

ZeroCrossings(x) == Cardinality({i \in 2..Len(x) : SignBit(x[i]) # SignBit(x[i - 1])})

Ratio(a, b) == [num |-> a, den |-> b]

RatioGt(r, t) == r.num * t.den > t.num * r.den

RatioLt(r, t) == RatioGt(t, r)

EmptyMetrics == [k \in {} |-> 0]

\* what the body of the try block computes for a signal it does not fail on;
\* the signal is shorter than one hop, so there is one frame of zero crossings
Metrics(x, rate) ==
    LET f10 == Percentile10x10(x) IN
    [snr_estimate |-> Ratio(100 * SumSquares(x), Len(x) * (f10 * f10 + 100)),
     dynamic_range |-> Ratio(units_per_one * SetMax(NonZeroAbs(x)),
                             units_per_one * SetMin(NonZeroAbs(x)) + 1),
     zero_crossing_rate |-> Ratio(ZeroCrossings(x), zcr_frame_length),
     spectral_centroid |-> [of |-> x, sr |-> rate]]

\* np.max of an empty array and np.min of an empty selection raise ValueError
MetricsRaise(x) == x = <<>> \/ NonZeroAbs(x) = {}

Result(status, value) == [status |-> status, value |-> value]

\* faulty variant of the assessment: no except clause
assess_audio_quality_unguarded(x, rate) ==
    IF MetricsRaise(x) THEN Result("raised", EmptyMetrics)
    ELSE Result("ok", Metrics(x, rate))

\* faulty variant of the assessment: the except clause returns the metrics
\* stored before the failing statement (the SNR estimate: nan for an empty
\* signal, minus infinity for an all-zero one)
assess_audio_quality_returns_partial(x, rate) ==
    IF MetricsRaise(x) THEN Result("ok", [snr_estimate |-> Ratio(0, Len(x))])
    ELSE Result("ok", Metrics(x, rate))

assess_audio_quality(x, rate) ==
    IF MetricsRaise(x) THEN Result("ok", EmptyMetrics)
    ELSE Result("ok", Metrics(x, rate))

\* dict.get(key, default)
Get(m, key, default) == IF key \in DOMAIN m THEN m[key] ELSE default

\* 0 dB is the ratio 1; a zero-crossing rate of 1
ZeroDb == Ratio(1, 1)

\* faulty variant of the validation: one of the two comparisons is enough
validate_preprocessing_quality_either(original_audio, processed_audio, rate) ==
    LET orig == assess_audio_quality(original_audio, rate)
        proc == assess_audio_quality(processed_audio, rate)
    IN IF orig.status = "raised" \/ proc.status = "raised" THEN Result("ok", TRUE)
       ELSE Result("ok",
              \/ RatioGt(Get(proc.value, "snr_estimate", ZeroDb),
                         Get(orig.value, "snr_estimate", ZeroDb))
              \/ RatioLt(Get(proc.value, "zero_crossing_rate", Ratio(1, 1)),
                         Get(orig.value, "zero_crossing_rate", Ratio(1, 1))))

validate_preprocessing_quality(original_audio, processed_audio, rate) ==
    LET orig == assess_audio_quality(original_audio, rate)
        proc == assess_audio_quality(processed_audio, rate)
        snr_improved == RatioGt(Get(proc.value, "snr_estimate", ZeroDb),
                                Get(orig.value, "snr_estimate", ZeroDb))
        zcr_improved == RatioLt(Get(proc.value, "zero_crossing_rate", Ratio(1, 1)),
                                Get(orig.value, "zero_crossing_rate", Ratio(1, 1)))
    IN IF orig.status = "raised" \/ proc.status = "raised" THEN Result("ok", TRUE)
       ELSE Result("ok", snr_improved /\ zcr_improved)

Signals == UNION {[1..n -> SampleValues] : n \in 0..MaxSamples}

QualityCalls ==
    {[f |-> "assess_audio_quality", pc |-> "call", audio |-> x, processed |-> <<>>,
      sr |-> r, ret |-> Result("", FALSE)] : x \in Signals, r \in TargetRates}
      \cup {[f |-> "validate_preprocessing_quality", pc |-> "call", audio |-> x,
             processed |-> y, sr |-> default_target_sr, ret |-> Result("", FALSE)] :
               x \in Signals, y \in Signals}

InitQuality ==
    /\ PipelineIdle
    /\ unit \in QualityCalls

Assess ==
    /\ Calling("assess_audio_quality")
    /\ Return(assess_audio_quality(unit.audio, unit.sr))

Validate ==
    /\ Calling("validate_preprocessing_quality")
    /\ Return(validate_preprocessing_quality(unit.audio, unit.processed, unit.sr))

NextQuality == Assess \/ Validate

SpecQuality == InitQuality /\ [][NextQuality]_vars

Measurable(x) == x # <<>> /\ \E i \in 1..Len(x) : x[i] # 0

\* the SNR estimate of section 4.5, as the ratio under the logarithm
SnrOf(x) == Ratio(100 * SumSquares(x),
                  Len(x) * (Percentile10x10(x) * Percentile10x10(x) + 100))

\* C18: when both signals have metrics, validate_preprocessing_quality
\* returns true exactly when the SNR estimate of the processed signal is
\* strictly greater and its zero-crossing rate strictly lower than the
\* original's; a tie in either makes it false.
C18_TrueIffBothImproved ==
    (/\ CondReturned("validate_preprocessing_quality")
     /\ Measurable(unit.audio)
     /\ Measurable(unit.processed)) =>
        (unit.ret.value = TRUE <=>
            /\ RatioGt(SnrOf(unit.processed), SnrOf(unit.audio))
            /\ ZeroCrossings(unit.processed) < ZeroCrossings(unit.audio))

C18_Witness ==
    /\ CondReturned("validate_preprocessing_quality")
    /\ unit.audio = <<1, 0 - 2, 1>>
    /\ unit.processed = <<0, 0, 3>>
    /\ unit.ret.value = TRUE

C18_WitnessTie ==
    /\ CondReturned("validate_preprocessing_quality")
    /\ unit.audio = <<1, 0 - 2>>
    /\ unit.processed = <<0 - 2, 1>>
    /\ unit.ret.value = FALSE

\* C19 (as claimed): when the metrics of the original or of the processed
\* signal cannot be computed, validate_preprocessing_quality returns true.
C19_FailOpen ==
    (/\ CondReturned("validate_preprocessing_quality")
     /\ ~Measurable(unit.audio) \/ ~Measurable(unit.processed)) =>
        unit.ret.value = TRUE

\* C20: assess_audio_quality on an empty or an all-zero signal returns the
\* empty metrics record and does not raise.
C20_DegenerateGivesEmptyMetrics ==
    (/\ unit.f = "assess_audio_quality"
     /\ unit.pc # "call"
     /\ \A i \in 1..Len(unit.audio) : unit.audio[i] = 0) =>
        /\ unit.pc = "returned"
        /\ unit.ret.status = "ok"
        /\ DOMAIN unit.ret.value = {}

C20_Witness ==
    /\ CondReturned("assess_audio_quality")
    /\ unit.audio = <<0, 0>>
    /\ unit.ret.value = EmptyMetrics

C20_WitnessEmpty ==
    /\ CondReturned("assess_audio_quality")
    /\ unit.audio = <<>>
    /\ unit.ret.value = EmptyMetrics

----------------------------------------------------------------------------
(* Concurrent calls of preprocess_audio.  Each call has its own arguments
   and locals (audio, sr, the exception in flight); the module has no
   variable that a call writes.  One step of a call is one statement of
   preprocess_audio or one conditioner call of the chain it entered. *)

NumCalls == 2

Callers == 1..NumCalls

CallArgs(data, rate, hint, level, fails, q) ==
    [data |-> data, rate |-> rate, hint |-> hint, level |-> level,
     fails |-> fails, q |-> q]

ConcArgs ==
    {CallArgs(Buffer("WAV", "PCM_16", default_target_sr, 4 * hop_length, <<>>),
              default_target_sr, "en", "standard", FALSE, NoQuiet),
     CallArgs(Buffer("FLAC", "PCM_24", 44100, 2 * hop_length, <<>>),
              44100, None, "aggressive", FALSE, [lead |-> 1, tail |-> 0]),
     CallArgs(GarbageBytes, default_target_sr, "hi", "minimal", FALSE, NoQuiet),
     CallArgs(Buffer("WAV", "PCM_16", default_target_sr, 0, <<>>),
              default_target_sr, None, "minimal", FALSE, NoQuiet),
     CallArgs(Buffer("WAV", "PCM_16", default_target_sr, 2 * hop_length - 1, <<>>),
              default_target_sr, "", "minimal", TRUE, NoQuiet)}

\* the frame of a call that has not started
Frame(a) ==
    [args |-> a, pc |-> "load", fn |-> "", ip |-> 0, audio |-> NoAudio, sr |-> 0,
     exc |-> "", outcome |-> NoOutcome]

InitConc ==
    /\ PipelineIdle
    /\ unit \in [f : {"preprocess_audio"}, pc : {"running"},
                 thr : [Callers -> {Frame(a) : a \in ConcArgs}],
                 interleaved : {FALSE}]

\* another call is between its first and its last statement
OtherMidRun(t) == \E u \in Callers \ {t} : unit.thr[u].pc \notin {"load", "done"}

StepOf(t, frame) ==
    /\ unit' = [unit EXCEPT !.thr[t] = frame,
                            !.interleaved = unit.interleaved \/ OtherMidRun(t)]
    /\ UNCHANGED pipeline

\* faulty variant: the samples are kept in one module-level buffer, which
\* is the one the first caller filled
StageInputShared(thr, t) == thr[1].audio

\* the array a conditioner call of caller t is given: the local of its call
StageInput(thr, t) == thr[t].audio

ConcLoad(t) ==
    LET c == unit.thr[t]
        r == librosa_load(c.args.data, c.args.rate)
    IN /\ c.pc = "load"
       /\ StepOf(t, IF r.status = "raised"
                    THEN [c EXCEPT !.pc = "except", !.exc = "librosa.load"]
                    ELSE [c EXCEPT !.pc = "chain", !.fn = Dispatch(c.args.level),
                                   !.ip = 1, !.audio = r.out, !.sr = r.sr])

ConcStage(t) ==
    LET c == unit.thr[t] IN
    /\ c.pc = "chain"
    /\ LET r == Exec(Body(c.fn)[c.ip], StageInput(unit.thr, t), c.sr, c.args.hint,
                     c.args.q)
       IN StepOf(t, IF r.status = "raised"
                    THEN [c EXCEPT !.pc = "except", !.exc = r.fn]
                    ELSE [c EXCEPT !.audio = r.out, !.ip = c.ip + 1,
                                   !.pc = IF c.ip = Len(Body(c.fn)) THEN "encode"
                                          ELSE "chain"])

ConcEncode(t) ==
    LET c == unit.thr[t] IN
    /\ c.pc = "encode"
    /\ StepOf(t, IF c.args.fails
                 THEN [c EXCEPT !.pc = "except", !.exc = "sf.write"]
                 ELSE [c EXCEPT !.pc = "done",
                                !.outcome = [kind |-> "return",
                                             value |-> sf_write(c.audio, c.args.rate)]])

ConcExcept(t) ==
    LET c == unit.thr[t] IN
    /\ c.pc = "except"
    /\ StepOf(t, [c EXCEPT !.pc = "done",
                           !.outcome = Handler(c.exc, c.args.data, c.audio, c.args.rate)])

NextConc ==
    \E t \in Callers :
        \/ ConcLoad(t)
        \/ ConcStage(t)
        \/ ConcEncode(t)
        \/ ConcExcept(t)

SpecConc == InitConc /\ [][NextConc]_vars

\* what the call of caller t returns when it runs alone
Alone(t) ==
    LET a == unit.thr[t].args
    IN preprocess_audio(a.data, a.rate, a.hint, a.level, a.fails, a.q).outcome

\* C21: whatever the interleaving of the statements of concurrent calls,
\* each call returns what it returns when run alone with its arguments.
C21_ConcurrentCallsIndependent ==
    \A t \in Callers : unit.thr[t].pc = "done" => unit.thr[t].outcome = Alone(t)

C21_Witness ==
    /\ unit.interleaved
    /\ \A t \in Callers : unit.thr[t].pc = "done"
    /\ unit.thr[1].args.level = "aggressive"
    /\ unit.thr[2].args.level = "standard"
    /\ unit.thr[1].outcome.value.format = "WAV"
    /\ unit.thr[2].outcome.value.format = "WAV"
    /\ unit.thr[1].outcome # unit.thr[2].outcome

----------------------------------------------------------------------------
(* The sample rate of a run *)

\* C22: from the decode on, the rate the stages are given is the target
\* rate, whatever the rate of the file, and the buffer returned by the
\* encoder carries the target rate.
C22_RateIsTargetRate ==
    /\ pc \in {"chain", "encode"} => sr = target_sr
    /\ (pc = "done" /\ exc = "") =>
          /\ sr = target_sr
          /\ outcome.value.samplerate = target_sr

C22_Witness ==
    /\ pc = "done"
    /\ exc = ""
    /\ audio_data.samplerate = 44100
    /\ target_sr = default_target_sr
    /\ Len(calls) = 8
    /\ sr = default_target_sr
    /\ outcome.value.samplerate = default_target_sr

----------------------------------------------------------------------------
(* The arithmetic of normalize_audio, remove_dc_offset and
   apply_wiener_filter, on sample values.

   For normalize_audio a signal is [shape, g2]: the samples are the
   integers of shape times the positive gain whose square is the ratio g2.
   The function only ever multiplies by a positive scalar, and the squares
   of every quantity it compares (mean square, peak, 0.95) are rational, so
   the arithmetic is exact.  Rounding of floating point is not represented. *)

\* a signal is a short pattern followed by up to SpikePad zeros
SpikePad == 96

clip_ceiling == 95

RECURSIVE Gcd(_, _)
Gcd(a, b) == IF b = 0 THEN a ELSE Gcd(b, a % b)

Reduced(r) ==
    LET g == Gcd(r.num, r.den) IN
    IF g = 0 THEN r ELSE Ratio(r.num \div g, r.den \div g)

RatioMul(a, b) ==
    LET x == Reduced(Ratio(a.num, b.den))
        y == Reduced(Ratio(b.num, a.den))
    IN Reduced(Ratio(x.num * y.num, x.den * y.den))

RatioDiv(a, b) == RatioMul(a, Ratio(b.den, b.num))

RECURSIVE Pow10(_)
Pow10(k) == IF k = 0 THEN 1 ELSE 10 * Pow10(k - 1)

\* 10 ** (target_db / 10) for target_db a multiple of 10 that is not positive
TargetPower(target_db) == Ratio(1, Pow10((0 - target_db) \div 10))

ClipPower == Ratio(clip_ceiling * clip_ceiling, 100 * 100)

Peak(shape) == IF shape = <<>> THEN 0 ELSE SetMax({Abs(shape[i]) : i \in 1..Len(shape)})

Scaled(shape, g2) == [shape |-> shape, g2 |-> g2]

\* the sum of the squares of shape[lo..hi], by halves
RECURSIVE SumSquaresIn(_, _, _)
SumSquaresIn(shape, lo, hi) ==
    IF lo > hi THEN 0
    ELSE IF lo = hi THEN shape[lo] * shape[lo]
    ELSE LET mid == (lo + hi) \div 2
         IN SumSquaresIn(shape, lo, mid) + SumSquaresIn(shape, mid + 1, hi)

\* np.mean(audio**2) and np.max(np.abs(audio)) ** 2
MeanSquare(x) ==
    RatioMul(x.g2, Ratio(SumSquaresIn(x.shape, 1, Len(x.shape)), Len(x.shape)))

PeakSquare(x) == RatioMul(x.g2, Ratio(Peak(x.shape) * Peak(x.shape), 1))

\* audio * gain_linear, with gain_linear ** 2 = target power / mean square
ToTargetLevel(x, target_db) ==
    IF MeanSquare(x).num > 0
    THEN [x EXCEPT !.g2 = RatioMul(x.g2, RatioDiv(TargetPower(target_db), MeanSquare(x)))]
    ELSE x

\* audio * (0.95 / max_val) when max_val > 0.95
BelowCeiling(x) ==
    IF RatioGt(PeakSquare(x), ClipPower)
    THEN [x EXCEPT !.g2 = RatioMul(x.g2, RatioDiv(ClipPower, PeakSquare(x)))]
    ELSE x

\* faulty variant of the normalisation: the gain is the target level itself,
\* not its distance from the current level
normalize_audio_samples_absolute_gain(x, target_db) ==
    IF x.shape = <<>> THEN Result("raised", x)
    ELSE Result("ok",
                BelowCeiling(IF MeanSquare(x).num > 0
                             THEN [x EXCEPT !.g2 = RatioMul(x.g2, TargetPower(target_db))]
                             ELSE x))

\* faulty variant of the normalisation: no clipping prevention
normalize_audio_samples_no_ceiling(x, target_db) ==
    IF x.shape = <<>> THEN Result("raised", x)
    ELSE Result("ok", ToTargetLevel(x, target_db))

normalize_audio_samples(x, target_db) ==
    IF x.shape = <<>> THEN Result("raised", x)
    ELSE Result("ok", BelowCeiling(ToTargetLevel(x, target_db)))

RECURSIVE Sum(_)
Sum(x) == IF x = <<>> THEN 0 ELSE Head(x) + Sum(Tail(x))

\* samples as fractions with one denominator
Fractions(num, den) == [num |-> num, den |-> den]

\* faulty variant of the offset removal: what is subtracted is the mean
\* magnitude
remove_dc_offset_samples_mean_abs(x) ==
    IF x = <<>> THEN Result("ok", Fractions(<<>>, 1))
    ELSE Result("ok", Fractions([i \in 1..Len(x) |-> Len(x) * x[i] - Sum(SortedAbs(x))],
                                Len(x)))

\* audio - np.mean(audio)
remove_dc_offset_samples(x) ==
    IF x = <<>> THEN Result("ok", Fractions(<<>>, 1))
    ELSE Result("ok", Fractions([i \in 1..Len(x) |-> Len(x) * x[i] - Sum(x)], Len(x)))

\* savgol_filter is given the scalar wiener_gain and raises on it, so the
\* except clause returns the input, whatever the samples
apply_wiener_filter_samples(x) == Result("failsoft", x)

NormalizeInputs ==
    {Scaled(x \o [i \in 1..k |-> 0], g) :
        x \in Signals, k \in {0, SpikePad}, g \in {Ratio(1, 100), Ratio(1, 1)}}

NumCall(f, x, t) ==
    [f |-> f, pc |-> "call", x |-> x, t |-> t, ret |-> Result("", <<>>),
     again |-> Result("", <<>>)]

SampleCalls ==
    {NumCall("normalize_audio", x, t) : x \in NormalizeInputs, t \in {normalize_target_db, 0 - 10, 0}}
      \cup {NumCall("remove_dc_offset", [i \in 1..Len(x) |-> x[i] + b], 0) :
               x \in Signals, b \in {0, 5, 0 - 7}}
      \cup {NumCall("apply_wiener_filter", x, 0) : x \in Signals}

InitNum ==
    /\ PipelineIdle
    /\ unit \in SampleCalls

NumNormalize ==
    /\ Calling("normalize_audio")
    /\ Return(normalize_audio_samples(unit.x, unit.t))

\* the caller normalises what it got, at the same target level
NumNormalizeAgain ==
    /\ CondReturned("normalize_audio")
    /\ unit' = [unit EXCEPT !.pc = "returned again",
                            !.again = normalize_audio_samples(unit.ret.value, unit.t)]
    /\ UNCHANGED pipeline

NumRemoveDcOffset ==
    /\ Calling("remove_dc_offset")
    /\ Return(remove_dc_offset_samples(unit.x))

NumWiener ==
    /\ Calling("apply_wiener_filter")
    /\ Return(apply_wiener_filter_samples(unit.x))

NextNum ==
    \/ NumNormalize
    \/ NumNormalizeAgain
    \/ NumRemoveDcOffset
    \/ NumWiener

SpecNum == InitNum /\ [][NextNum]_vars

NonSilent(shape) == \E i \in 1..Len(shape) : shape[i] # 0

\* the same samples: the same shape under the same gain
SameSamples(x, y) ==
    /\ x.shape = y.shape
    /\ x.g2.num * y.g2.den = y.g2.num * x.g2.den

\* the first pass brought the peak down to the ceiling
CeilingApplied(x, target_db) == RatioGt(PeakSquare(ToTargetLevel(x, target_db)), ClipPower)

\* C23: normalising a normalised non-silent signal again at the same target
\* level gives the same samples, also when the first pass applied the 0.95
\* ceiling.
C23_NormalizeIdempotent ==
    (/\ unit.f = "normalize_audio"
     /\ unit.pc = "returned again"
     /\ NonSilent(unit.x.shape)) =>
        /\ unit.again.status = "ok"
        /\ SameSamples(unit.again.value, unit.ret.value)

C23_Witness ==
    /\ unit.f = "normalize_audio"
    /\ unit.pc = "returned again"
    /\ unit.t = normalize_target_db
    /\ Len(unit.x.shape) > SpikePad
    /\ CeilingApplied(unit.x, unit.t)
    /\ ~SameSamples(unit.ret.value, unit.x)
    /\ SameSamples(unit.again.value, unit.ret.value)

C23_WitnessNoCeiling ==
    /\ unit.f = "normalize_audio"
    /\ unit.pc = "returned again"
    /\ unit.x.shape = <<1, 0 - 2, 3>>
    /\ ~CeilingApplied(unit.x, unit.t)
    /\ ~SameSamples(unit.ret.value, unit.x)
    /\ SameSamples(unit.again.value, unit.ret.value)

\* C24: the samples remove_dc_offset returns for a non-empty signal have
\* mean zero, whatever constant was added to the signal.
C24_MeanIsZero ==
    (CondReturned("remove_dc_offset") /\ unit.x # <<>>) =>
        /\ Len(unit.ret.value.num) = Len(unit.x)
        /\ unit.ret.value.den > 0
        /\ Sum(unit.ret.value.num) = 0

C24_Witness ==
    /\ CondReturned("remove_dc_offset")
    /\ unit.x = <<3, 6, 8>>
    /\ unit.ret.value = Fractions(<<0 - 8, 1, 7>>, 3)

\* np.var, as a ratio
Variance(x) == Ratio(Len(x) * SumSquares(x) - Sum(x) * Sum(x), Len(x) * Len(x))

\* audio[np.abs(audio) < np.percentile(np.abs(audio), 10)]
QuietParts(x) == SelectSeq(x, LAMBDA v : 10 * Abs(v) < Percentile10x10(x))

\* the samples are in tenths, so 0.01 is one squared unit
NoiseVariance(x) ==
    IF QuietParts(x) # <<>> THEN Variance(QuietParts(x))
    ELSE Ratio(wiener_noise_variance, 1)

\* signal_power / (signal_power + noise_var)
WienerGain(x) ==
    LET sp == Variance(x)
        nv == NoiseVariance(x)
    IN Ratio(sp.num * nv.den, sp.num * nv.den + nv.num * sp.den)

\* C25 (as claimed): for a signal that is not constant, apply_wiener_filter
\* returns every sample multiplied by the gain
\* signalVariance / (signalVariance + noiseVariance).
C25_OutputIsInputTimesGain ==
    (/\ CondReturned("apply_wiener_filter")
     /\ unit.x # <<>>
     /\ Variance(unit.x).num > 0) =>
        /\ Len(unit.ret.value) = Len(unit.x)
        /\ \A i \in 1..Len(unit.x) :
              unit.ret.value[i] * WienerGain(unit.x).den = unit.x[i] * WienerGain(unit.x).num

\* C27: the peak of what normalize_audio returns for a non-empty signal is
\* at most 0.95, and an all-zero signal is returned as it was given.
C27_PeakAtMostCeiling ==
    CondReturned("normalize_audio") =>
        /\ ~RatioGt(PeakSquare(unit.ret.value), ClipPower)
        /\ ~NonSilent(unit.x.shape) => unit.ret.value = unit.x

C27_Witness ==
    /\ CondReturned("normalize_audio")
    /\ unit.t = 0
    /\ unit.x = Scaled(<<1, 0 - 2, 3>>, Ratio(1, 100))
    /\ CeilingApplied(unit.x, unit.t)
    /\ PeakSquare(unit.ret.value) = Reduced(ClipPower)

C27_WitnessSilent ==
    /\ CondReturned("normalize_audio")
    /\ unit.x = Scaled(<<0, 0>>, Ratio(1, 100))
    /\ unit.ret.value = unit.x

----------------------------------------------------------------------------
(* An empty array in the chain *)

\* the trim of this run returned an empty array
TrimGaveEmpty(i) ==
    /\ calls[i].fn = "trim_silence"
    /\ calls[i].status # "raised"
    /\ calls[i].out.n = 0

\* C26 (as claimed): in a run whose encoder works, when trim_silence returns
\* an empty array the stages after it complete, and the call returns the
\* encoding of what the chain produced.
C26_EmptyTrimTolerated ==
    \A i \in 1..Len(calls) :
        (pc = "done" /\ ~sf_write_fails /\ TrimGaveEmpty(i)) =>
            /\ \A j \in (i + 1)..Len(calls) : calls[j].status # "raised"
            /\ Len(calls) = Len(Body(fn))
            /\ Returned(sf_write(audio, target_sr))

----------------------------------------------------------------------------
(* The caller's array.  Arrays are objects of a heap; a conditioner is
   given a reference and returns one: to a new array on its success path
   (audio * gain, audio - mean and the library calls allocate; the result
   of librosa.effects.trim is a slice of the argument, which it does not
   write), to the argument itself from an except clause. *)

HeapCall(c) ==
    [f |-> c.f, pc |-> "call", heap |-> [o \in {"caller"} |-> c.in], arg |-> "caller",
     before |-> c.in, rate |-> c.rate, p |-> c.p, q |-> c.q, status |-> "", ret |-> ""]

InitHeap ==
    /\ PipelineIdle
    /\ unit \in {HeapCall(c) : c \in CondCalls}

\* faulty variant: the result is written into the argument (audio *= gain)
StoreInPlace(heap, ref, r) ==
    IF r.status = "ok" THEN [heap EXCEPT ![ref] = r.out] ELSE heap

\* the heap after a call given ref: the result of the success path is a
\* new object
Store(heap, ref, r) ==
    IF r.status = "ok"
    THEN [o \in DOMAIN heap \cup {"result"} |-> IF o = "result" THEN r.out ELSE heap[o]]
    ELSE heap

InHeap(r) ==
    /\ unit' = [unit EXCEPT !.heap = Store(unit.heap, unit.arg, r),
                            !.status = r.status,
                            !.ret = CASE r.status = "ok" -> "result"
                                      [] r.status = "failsoft" -> unit.arg
                                      [] OTHER -> "",
                            !.pc = IF r.status = "raised" THEN "raised" ELSE "returned"]
    /\ UNCHANGED pipeline

Given == unit.heap[unit.arg]

HeapNormalize == Calling("normalize_audio") /\ InHeap(normalize_audio(Given))

HeapRemoveDcOffset == Calling("remove_dc_offset") /\ InHeap(remove_dc_offset(Given))

HeapBandpass ==
    /\ Calling("apply_bandpass_filter")
    /\ InHeap(apply_bandpass_filter(Given, unit.rate, unit.p[1], unit.p[2]))

HeapHighpass ==
    /\ Calling("apply_high_pass_filter")
    /\ InHeap(apply_high_pass_filter(Given, unit.rate, unit.p[1]))

HeapReduceNoise ==
    /\ Calling("reduce_noise")
    /\ InHeap(reduce_noise(Given, unit.rate, unit.p[1]))

HeapWiener == Calling("apply_wiener_filter") /\ InHeap(apply_wiener_filter(Given))

HeapTrimSilence ==
    /\ Calling("trim_silence")
    /\ InHeap(trim_silence(Given, unit.rate, unit.p[1], unit.q))

HeapPreemphasis == Calling("apply_preemphasis") /\ InHeap(apply_preemphasis(Given))

NextHeap ==
    \/ HeapNormalize
    \/ HeapRemoveDcOffset
    \/ HeapBandpass
    \/ HeapHighpass
    \/ HeapReduceNoise
    \/ HeapWiener
    \/ HeapTrimSilence
    \/ HeapPreemphasis

SpecHeap == InitHeap /\ [][NextHeap]_vars

\* C28: after a call of a conditioner, on its success path and on its
\* fail-soft path, the array the caller passed holds what it held before.
C28_ArgumentNotWritten ==
    unit.pc # "call" => unit.heap[unit.arg] = unit.before

C28_Witness ==
    /\ unit.pc = "returned"
    /\ unit.f = "normalize_audio"
    /\ unit.status = "ok"
    /\ unit.ret = "result"
    /\ unit.heap["result"] # unit.before
    /\ unit.heap["caller"] = unit.before

C28_WitnessFailSoft ==
    /\ unit.pc = "returned"
    /\ unit.f = "apply_bandpass_filter"
    /\ unit.status = "failsoft"
    /\ unit.ret = "caller"
    /\ DOMAIN unit.heap = {"caller"}
    /\ unit.heap["caller"] = unit.before

----------------------------------------------------------------------------
(* The language hint at the 16000 Hz target rate *)

\* the same call with another language hint
WithHint(h) ==
    preprocess_audio(audio_data, target_sr, h, preprocessing_level, sf_write_fails,
                     quiet).outcome

----------------------------------------------------------------------------
(* The shape of the metrics record *)

MetricNames == {"snr_estimate", "dynamic_range", "zero_crossing_rate", "spectral_centroid"}

\* C30: what assess_audio_quality returns holds all four metrics or none,
\* also when a metric fails after another was stored.
C30_AllFourOrNone ==
    CondReturned("assess_audio_quality") =>
        /\ unit.ret.status = "ok"
        /\ DOMAIN unit.ret.value \in {{}, MetricNames}

C30_Witness ==
    /\ CondReturned("assess_audio_quality")
    /\ unit.audio = <<0, 0, 0>>
    /\ DOMAIN unit.ret.value = {}

C30_WitnessFull ==
    /\ CondReturned("assess_audio_quality")
    /\ unit.audio = <<1, 0 - 2>>
    /\ DOMAIN unit.ret.value = MetricNames

====
